---- MODULE Spec2Model ----
(***************************************************************************)
(* Build-graph dependency synchronizer and deploy-manifest rename mutator  *)
(* of the moonflare CLI: the `add` command (scaffold + WASM wiring) and    *)
(* the `rename` command, over a workspace held on the filesystem.          *)
(***************************************************************************)
EXTENDS Integers, Sequences, FiniteSets, TLC

VARIABLES
    proj,       \* slot <<dir, name>> -> the project directory at <dir>/<name>
    agg,        \* the file shared-wasm/moon.yml
    last,       \* the last command run: its arguments and its outcome
    libsAdded,  \* history: crate name -> number of completed `add crate` runs
    ncmd,       \* number of commands run so far
    readdir,    \* the order in which the filesystem enumerates entry names
    procs       \* command process -> its position in `add` and its locals

vars == <<proj, agg, last, libsAdded, ncmd, readdir, procs>>

\* ------------------------------------------------------------------ bounds

\* At most this many commands are run on a freshly initialised workspace.
MaxCmds == 3

\* At most this many commands are run on a hand-edited workspace.
MaxHandCmds == 2

\* At most this many add commands set a workspace up before a rename run
\* whose phases are followed.
MaxSetupCmds == 2

\* ------------------------------------------------------------- vocabulary

\* Project names given on the command line. "my$app" holds a `$name`
\* capture-group reference in the sense of the regex crate's replacement
\* strings.
Names == {"api", "math", "my$app"}

\* Project type strings given to `add`; "vue" stands for any unknown type.
Types == {"astro", "react", "durable-object", "worker", "crate", "vue"}

ConsumerDirs == <<"sites", "apps", "workers">>

Dirs == {"sites", "apps", "workers", "crates"}

Slots == Dirs \X Names

WasmDep == "shared-wasm:gather"

WasmInput == "/shared-wasm/*.wasm"

SrcInput == "src/**/*"

NoFile == [kind |-> "nofile"]

BadFile == [kind |-> "bad"]

NoProject ==
    [dir |-> FALSE, moon |-> NoFile, toml |-> NoFile, json |-> NoFile,
     jsonc |-> NoFile, other |-> ""]

Contains(seq, e) == \E i \in 1..Len(seq) : seq[i] = e

NoDuplicates(seq) ==
    \A i, j \in 1..Len(seq) : seq[i] = seq[j] => i = j

\* The enumeration orders of entry names tried: read_dir's order is
\* unspecified, and stays the same while the entries stay the same.
ReaddirOrders == {<<"api", "math", "my$app">>, <<"my$app", "math", "api">>}

\* ------------------------------------------------------------ utils/fs.rs

get_project_directory(project_type) ==
    CASE project_type = "astro" -> "sites"
      [] project_type = "react" -> "apps"
      [] project_type \in {"durable-object", "worker"} -> "workers"
      [] project_type = "crate" -> "crates"
      [] OTHER -> "apps"

\* Mutant: the crates/ directory itself is taken as evidence of a crate.
has_crates_dir_exists(fs) == TRUE

has_crates(fs) == \E n \in Names : fs[<<"crates", n>>].dir

\* The entries of one consumer directory that are directories holding a
\* moon.yml, in the order read_dir yields them.
TsEntries(fs, d, order) ==
    LET F[i \in 0..Len(order)] ==
            IF i = 0 THEN <<>>
            ELSE IF fs[<<d, order[i]>>].dir
                    /\ fs[<<d, order[i]>>].moon.kind # "nofile"
                 THEN Append(F[i - 1], <<d, order[i]>>)
                 ELSE F[i - 1]
    IN F[Len(order)]

\* get_typescript_projects: sites, apps, workers in this order; within one
\* directory the order is the one read_dir yields, which is unspecified.
get_typescript_projects(fs, order) ==
    TsEntries(fs, ConsumerDirs[1], order)
        \o TsEntries(fs, ConsumerDirs[2], order)
        \o TsEntries(fs, ConsumerDirs[3], order)

\* Mutant: the entry is pushed without looking for it first.
PushAlways(seq, e) == Append(seq, e)

\* Mutant: a missing entry is put in front of the list.
PushFront(seq, e) == IF Contains(seq, e) THEN seq ELSE <<e>> \o seq

PushIfAbsent(seq, e) == IF Contains(seq, e) THEN seq ELSE Append(seq, e)

\* Mutant: only the task dependency is pushed, not the input.
add_wasm_dependency_deps_only(m) ==
    IF m.kind = "nofile" THEN [ok |-> TRUE, file |-> m]
    ELSE IF m.kind = "bad" THEN [ok |-> FALSE, file |-> m]
    ELSE IF m.build
         THEN [ok |-> TRUE,
               file |-> [m EXCEPT !.deps = PushIfAbsent(@, WasmDep),
                                  !.fmt = "norm"]]
         ELSE [ok |-> TRUE, file |-> [m EXCEPT !.fmt = "norm"]]

\* add_wasm_dependency_to_project on the content of <project>/moon.yml.
add_wasm_dependency_to_project(m) ==
    IF m.kind = "nofile" THEN [ok |-> TRUE, file |-> m]
    ELSE IF m.kind = "bad" THEN [ok |-> FALSE, file |-> m]
    ELSE IF m.build
         THEN [ok |-> TRUE,
               file |-> [m EXCEPT !.deps = PushIfAbsent(@, WasmDep),
                                  !.inputs = PushIfAbsent(@, WasmInput),
                                  !.fmt = "norm"]]
         ELSE [ok |-> TRUE, file |-> [m EXCEPT !.fmt = "norm"]]

has_wasm_dependency(m) ==
    /\ m.kind = "yaml"
    /\ m.build
    /\ Contains(m.deps, WasmDep)

\* Mutant: the target names the wrong task.
crate_target_gather(crate_name) == crate_name \o ":gather"

crate_target(crate_name) == crate_name \o ":build"

\* Mutant: the crate target is pushed whether or not deps holds it.
add_crate_build_dependency_unchecked(a, crate_name) ==
    IF a.kind = "nofile" THEN [ok |-> TRUE, file |-> a]
    ELSE IF a.kind = "bad" THEN [ok |-> FALSE, file |-> a]
    ELSE IF a.gather
         THEN [ok |-> TRUE,
               file |-> [a EXCEPT
                            !.deps = Append(@, crate_name \o ":build"),
                            !.fmt = "norm"]]
         ELSE [ok |-> TRUE, file |-> [a EXCEPT !.fmt = "norm"]]

\* Mutant: a missing aggregator manifest is created with the target.
add_crate_build_dependency_create_file(a, crate_name) ==
    IF a.kind = "nofile"
    THEN [ok |-> TRUE,
          file |-> [kind |-> "yaml", gather |-> TRUE,
                    deps |-> <<crate_name \o ":build">>, rest |-> "",
                    fmt |-> "norm"]]
    ELSE IF a.kind = "bad" THEN [ok |-> FALSE, file |-> a]
    ELSE IF a.gather
         THEN [ok |-> TRUE,
               file |-> [a EXCEPT
                            !.deps = PushIfAbsent(@, crate_name \o ":build"),
                            !.fmt = "norm"]]
         ELSE [ok |-> TRUE, file |-> [a EXCEPT !.fmt = "norm"]]

\* add_crate_build_dependency_to_shared_wasm on shared-wasm/moon.yml.
add_crate_build_dependency_to_shared_wasm(a, crate_name) ==
    IF a.kind = "nofile" THEN [ok |-> TRUE, file |-> a]
    ELSE IF a.kind = "bad" THEN [ok |-> FALSE, file |-> a]
    ELSE IF a.gather
         THEN [ok |-> TRUE,
               file |-> [a EXCEPT
                            !.deps = PushIfAbsent(@, crate_target(crate_name)),
                            !.fmt = "norm"]]
         ELSE [ok |-> TRUE, file |-> [a EXCEPT !.fmt = "norm"]]

\* ------------------------------------------------------- project templates

get_template(project_type) ==
    CASE project_type = "astro" -> "astro"
      [] project_type = "react" -> "react"
      [] project_type \in {"durable-object", "worker"} -> "durable-object"
      [] project_type = "crate" -> "crate"
      [] OTHER -> "none"

\* The keys and sections of a manifest other than the two lists of the
\* build task (the one list of the gather task): the parsed Value holds
\* them and the write-back serialises them again.
OtherKeys == "language, type, tasks.dev"

Yaml(deps, inputs) ==
    [kind |-> "yaml", build |-> TRUE, deps |-> deps, inputs |-> inputs,
     rest |-> OtherKeys, fmt |-> "raw"]

\* The moon.yml a template renders, with and without the has_wasm flag.
TemplateMoon(template, has_wasm) ==
    IF template = "crate" THEN Yaml(<<>>, <<SrcInput>>)
    ELSE IF has_wasm THEN Yaml(<<WasmDep>>, <<SrcInput, WasmInput>>)
    ELSE Yaml(<<>>, <<SrcInput>>)

TextTok(s) == [t |-> "text", s |-> s]

\* One textual occurrence of  "name"<pre spaces>:<post spaces>"<val>"  in a
\* JSONC file; ctx tells where it stands: the top-level object, a comment,
\* or a nested object.
NameTok(ctx, pre, post, val) ==
    [t |-> "name", ctx |-> ctx, pre |-> pre, post |-> post, val |-> val]

Jsonc(toks) == [kind |-> "jsonc", toks |-> toks]

Toml(name, fmt) == [kind |-> "toml", name |-> name, fmt |-> fmt]

\* The files process_template_files writes into the project directory; the
\* files of the directory that the template does not name are kept.
TemplateFiles(p, template, name, has_wasm) ==
    LET q == [p EXCEPT !.dir = TRUE,
                       !.moon = TemplateMoon(template, has_wasm),
                       !.other = name]
    IN CASE template = "astro" ->
              [q EXCEPT !.jsonc = Jsonc(<<TextTok("{"),
                                         NameTok("top", 0, 1, name),
                                         TextTok("}")>>)]
         [] template = "react" ->
              [q EXCEPT !.jsonc = Jsonc(<<TextTok("/** doc */"), TextTok("{"),
                                         NameTok("top", 0, 1, name),
                                         TextTok("}")>>)]
         [] template = "durable-object" ->
              [q EXCEPT !.toml = Toml(name, "raw")]
         [] OTHER -> q

\* --------------------------------------------------------- commands/add.rs

\* Mutant: a project whose manifest cannot be updated is skipped and the
\* loop goes on.
RECURSIVE WireFrom_swallow_errors(_, _, _, _)
WireFrom_swallow_errors(fs, order, i, updated_count) ==
    IF i > Len(order) THEN [ok |-> TRUE, fs |-> fs, count |-> updated_count]
    ELSE IF has_wasm_dependency(fs[order[i]].moon)
         THEN WireFrom_swallow_errors(fs, order, i + 1, updated_count)
         ELSE LET r == add_wasm_dependency_to_project(fs[order[i]].moon)
              IN IF ~r.ok
                 THEN WireFrom_swallow_errors(fs, order, i + 1, updated_count)
                 ELSE WireFrom_swallow_errors(
                          [fs EXCEPT ![order[i]].moon = r.file],
                          order, i + 1, updated_count + 1)

RECURSIVE WireFrom(_, _, _, _)
WireFrom(fs, order, i, updated_count) ==
    IF i > Len(order) THEN [ok |-> TRUE, fs |-> fs, count |-> updated_count]
    ELSE IF has_wasm_dependency(fs[order[i]].moon)
         THEN WireFrom(fs, order, i + 1, updated_count)
         ELSE LET r == add_wasm_dependency_to_project(fs[order[i]].moon)
              IN IF ~r.ok
                 THEN [ok |-> FALSE, fs |-> fs, count |-> updated_count]
                 ELSE WireFrom([fs EXCEPT ![order[i]].moon = r.file],
                               order, i + 1, updated_count + 1)

add_wasm_dependencies_to_existing_projects(fs, order) ==
    WireFrom(fs, get_typescript_projects(fs, order), 1, 0)

Outcome(fs, a, result, count) ==
    [fs |-> fs, agg |-> a, result |-> result, count |-> count]

\* AddCommand::execute, `order` being read_dir's order of entry names.
AddExecute(fs, a, project_type, name, order) ==
    LET slot == <<get_project_directory(project_type), name>>
        made == [fs EXCEPT ![slot].dir = TRUE]
        template == get_template(project_type)
        is_typescript_project ==
            project_type \in {"astro", "react", "durable-object"}
        should_add_wasm_deps == is_typescript_project /\ has_crates(made)
        gen == [made EXCEPT
                   ![slot] = TemplateFiles(@, template, name,
                                           should_add_wasm_deps)]
    IN IF template = "none" THEN Outcome(made, a, "UnknownType", 0)
       ELSE IF project_type # "crate" THEN Outcome(gen, a, "ok", 0)
       ELSE LET w == add_wasm_dependencies_to_existing_projects(gen, order)
                s == add_crate_build_dependency_to_shared_wasm(a, name)
            IN IF ~w.ok THEN Outcome(w.fs, a, "ManifestError", w.count)
               ELSE IF ~s.ok THEN Outcome(w.fs, a, "ManifestError", w.count)
               ELSE Outcome(w.fs, s.file, "ok", w.count)

Cmd(op, project_type, name, new, result, count) ==
    [op |-> op, type |-> project_type, name |-> name, new |-> new,
     result |-> result, count |-> count]

Add(project_type, name) ==
    LET r == AddExecute(proj, agg, project_type, name, readdir)
    IN /\ ncmd < MaxCmds
       /\ ncmd' = ncmd + 1
       /\ proj' = r.fs
       /\ agg' = r.agg
       /\ last' = Cmd("add", project_type, name, "", r.result, r.count)
       /\ libsAdded' =
            IF project_type = "crate" /\ r.result = "ok"
            THEN [libsAdded EXCEPT ![name] = @ + 1] ELSE libsAdded
       /\ UNCHANGED <<readdir, procs>>

\* ------------------------------------------------------ commands/rename.rs

\* Mutant: the crates directory is searched first.
ProjectTypes_crates_first ==
    <<[type |-> "crate", dir |-> "crates"],
      [type |-> "astro", dir |-> "sites"],
      [type |-> "react", dir |-> "apps"],
      [type |-> "durable-object", dir |-> "workers"]>>

ProjectTypes ==
    <<[type |-> "astro", dir |-> "sites"],
      [type |-> "react", dir |-> "apps"],
      [type |-> "durable-object", dir |-> "workers"],
      [type |-> "crate", dir |-> "crates"]>>

RECURSIVE FindFrom(_, _, _)
FindFrom(fs, name, i) ==
    IF i > Len(ProjectTypes) THEN [found |-> FALSE, dir |-> "", type |-> ""]
    ELSE IF fs[<<ProjectTypes[i].dir, name>>].dir
         THEN [found |-> TRUE, dir |-> ProjectTypes[i].dir,
               type |-> ProjectTypes[i].type]
         ELSE FindFrom(fs, name, i + 1)

\* Mutant: a name found nowhere is taken to live in apps/, the fallback
\* directory of get_project_directory.
find_project_fallback(fs, name) ==
    IF FindFrom(fs, name, 1).found THEN FindFrom(fs, name, 1)
    ELSE [found |-> TRUE, dir |-> "apps", type |-> "react"]

find_project(fs, name) == FindFrom(fs, name, 1)

\* The replacement string after the regex crate has expanded the `$name`
\* references in it: a reference to a capture group the pattern does not
\* have expands to the empty string, so "my$app" is written as "my".
ExpandReplacement(new_name) ==
    IF new_name = "my$app" THEN "my" ELSE new_name

update_wrangler_toml(f, new_name, can_write) ==
    IF f.kind = "bad" \/ ~can_write THEN [ok |-> FALSE, file |-> f]
    ELSE [ok |-> TRUE, file |-> [f EXCEPT !.name = new_name, !.fmt = "norm"]]

update_wrangler_json(f, new_name, can_write) ==
    IF f.kind = "bad" \/ ~can_write THEN [ok |-> FALSE, file |-> f]
    ELSE IF f.top = "object"
         THEN [ok |-> TRUE,
               file |-> [f EXCEPT !.name = new_name, !.fmt = "norm"]]
         ELSE [ok |-> TRUE, file |-> [f EXCEPT !.fmt = "norm"]]

\* Index of the first match of  "name"\s*:\s*"[^"]*"  in the text, 0 if none.
FirstNameTok(toks) ==
    IF \E i \in 1..Len(toks) : toks[i].t = "name"
    THEN CHOOSE i \in 1..Len(toks) :
            /\ toks[i].t = "name"
            /\ \A j \in 1..(i - 1) : toks[j].t # "name"
    ELSE 0

\* Mutant: Regex::replace_all, every match is replaced.
ReplaceAllNames(toks, new_name) ==
    [i \in 1..Len(toks) |->
        IF toks[i].t = "name"
        THEN [toks[i] EXCEPT !.pre = 0, !.post = 1,
                             !.val = ExpandReplacement(new_name)]
        ELSE toks[i]]

\* Regex::replace: the first match is replaced by  "name": "<new_name>".
ReplaceFirstName(toks, new_name) ==
    LET i == FirstNameTok(toks)
    IN IF i = 0 THEN toks
       ELSE [toks EXCEPT ![i] = [@ EXCEPT !.pre = 0, !.post = 1,
                                          !.val = ExpandReplacement(new_name)]]

update_wrangler_jsonc(f, new_name, can_write) ==
    IF ~can_write THEN [ok |-> FALSE, file |-> f]
    ELSE [ok |-> TRUE,
          file |-> [f EXCEPT !.toks = ReplaceFirstName(@, new_name)]]

\* Mutant: every deploy manifest the directory holds is rewritten.
update_wrangler_config_every_file(p, new_name, can_write) ==
    LET t == IF p.toml.kind = "nofile" THEN [ok |-> TRUE, file |-> p.toml]
             ELSE update_wrangler_toml(p.toml, new_name, can_write)
        j == IF p.json.kind = "nofile" THEN [ok |-> TRUE, file |-> p.json]
             ELSE update_wrangler_json(p.json, new_name, can_write)
        c == IF p.jsonc.kind = "nofile" THEN [ok |-> TRUE, file |-> p.jsonc]
             ELSE update_wrangler_jsonc(p.jsonc, new_name, can_write)
    IN [ok |-> t.ok /\ j.ok /\ c.ok,
        p |-> [p EXCEPT !.toml = t.file, !.json = j.file, !.jsonc = c.file]]

\* Mutant: a directory without a deploy manifest is an error.
update_wrangler_config_require_manifest(p, new_name, can_write) ==
    IF p.toml.kind # "nofile"
    THEN LET u == update_wrangler_toml(p.toml, new_name, can_write)
         IN [ok |-> u.ok, p |-> [p EXCEPT !.toml = u.file]]
    ELSE IF p.json.kind # "nofile"
    THEN LET u == update_wrangler_json(p.json, new_name, can_write)
         IN [ok |-> u.ok, p |-> [p EXCEPT !.json = u.file]]
    ELSE IF p.jsonc.kind # "nofile"
    THEN LET u == update_wrangler_jsonc(p.jsonc, new_name, can_write)
         IN [ok |-> u.ok, p |-> [p EXCEPT !.jsonc = u.file]]
    ELSE [ok |-> FALSE, p |-> p]

\* update_wrangler_config on the project directory p.
update_wrangler_config(p, new_name, can_write) ==
    IF p.toml.kind # "nofile"
    THEN LET u == update_wrangler_toml(p.toml, new_name, can_write)
         IN [ok |-> u.ok, p |-> [p EXCEPT !.toml = u.file]]
    ELSE IF p.json.kind # "nofile"
    THEN LET u == update_wrangler_json(p.json, new_name, can_write)
         IN [ok |-> u.ok, p |-> [p EXCEPT !.json = u.file]]
    ELSE IF p.jsonc.kind # "nofile"
    THEN LET u == update_wrangler_jsonc(p.jsonc, new_name, can_write)
         IN [ok |-> u.ok, p |-> [p EXCEPT !.jsonc = u.file]]
    ELSE [ok |-> TRUE, p |-> p]

\* Mutant: every project type is taken to carry a deploy identity.
IsWebType_every_type(project_type) == TRUE

IsWebType(project_type) ==
    project_type \in {"astro", "react", "durable-object"}

\* Mutant: the destination is never found to exist.
PathExists_never(fs, path) == FALSE

\* Mutant: the name is looked for in every category directory.
PathExists_any_category(fs, path) == \E d \in Dirs : fs[<<d, path[2]>>].dir

\* Path::exists on the path of a project directory.
PathExists(fs, path) == fs[path].dir

\* Mutant: the directory is copied and the source left in place.
MoveDir_copy(fs, from, to) == [fs EXCEPT ![to] = fs[from]]

\* fs::rename of the project directory.
MoveDir(fs, from, to) == [fs EXCEPT ![to] = fs[from], ![from] = NoProject]

\* Mutant: the result of update_wrangler_config is dropped instead of
\* propagated, so the directory is moved after a failed update.
RenameExecute_ignore_update_error(fs, current_name, new_name, can_write, can_move) ==
    LET f == find_project(fs, current_name)
        project_path == <<f.dir, current_name>>
        new_project_path == <<f.dir, new_name>>
        u == IF IsWebType(f.type)
             THEN update_wrangler_config(fs[project_path], new_name, can_write)
             ELSE [ok |-> TRUE, p |-> fs[project_path]]
        updated == [fs EXCEPT ![project_path] = u.p]
    IN IF ~f.found THEN [fs |-> fs, type |-> "", result |-> "ProjectNotFound"]
       ELSE IF fs[new_project_path].dir
       THEN [fs |-> fs, type |-> f.type,
             result |-> "DestinationAlreadyExists"]
       ELSE IF ~can_move
       THEN [fs |-> updated, type |-> f.type, result |-> "MoveError"]
       ELSE [fs |-> MoveDir(updated, project_path, new_project_path),
             type |-> f.type,
             result |-> IF u.ok THEN "ok" ELSE "IdentityError"]

\* Mutant: the destination is not looked at before the move.
RenameExecute_no_destination_check(fs, current_name, new_name, can_write, can_move) ==
    LET f == find_project(fs, current_name)
        project_path == <<f.dir, current_name>>
        new_project_path == <<f.dir, new_name>>
        u == IF IsWebType(f.type)
             THEN update_wrangler_config(fs[project_path], new_name, can_write)
             ELSE [ok |-> TRUE, p |-> fs[project_path]]
        updated == [fs EXCEPT ![project_path] = u.p]
    IN IF ~f.found THEN [fs |-> fs, type |-> "", result |-> "ProjectNotFound"]
       ELSE IF ~u.ok
       THEN [fs |-> fs, type |-> f.type, result |-> "IdentityError"]
       ELSE IF ~can_move
       THEN [fs |-> updated, type |-> f.type, result |-> "MoveError"]
       ELSE [fs |-> MoveDir(updated, project_path, new_project_path),
             type |-> f.type,
             result |-> IF fs[new_project_path].dir
                        THEN "DestinationAlreadyExists" ELSE "ok"]

\* RenameCommand::execute; can_write and can_move are the filesystem's
\* answers to the manifest write and to the directory rename.
RenameExecute(fs, current_name, new_name, can_write, can_move) ==
    LET f == find_project(fs, current_name)
        project_path == <<f.dir, current_name>>
        new_project_path == <<f.dir, new_name>>
        u == IF IsWebType(f.type)
             THEN update_wrangler_config(fs[project_path], new_name, can_write)
             ELSE [ok |-> TRUE, p |-> fs[project_path]]
        updated == [fs EXCEPT ![project_path] = u.p]
    IN IF ~f.found THEN [fs |-> fs, type |-> "", result |-> "ProjectNotFound"]
       ELSE IF PathExists(fs, new_project_path)
       THEN [fs |-> fs, type |-> f.type,
             result |-> "DestinationAlreadyExists"]
       ELSE IF ~u.ok
       THEN [fs |-> fs, type |-> f.type, result |-> "IdentityError"]
       ELSE IF ~can_move
       THEN [fs |-> updated, type |-> f.type, result |-> "MoveError"]
       ELSE [fs |-> MoveDir(updated, project_path, new_project_path),
             type |-> f.type, result |-> "ok"]

Rename(current_name, new_name) ==
    /\ ncmd < MaxCmds
    /\ ncmd' = ncmd + 1
    /\ \E can_write, can_move \in BOOLEAN :
        LET r == RenameExecute(proj, current_name, new_name,
                               can_write, can_move)
        IN /\ proj' = r.fs
           /\ last' = Cmd("rename", r.type, current_name, new_name,
                          r.result, 0)
           /\ UNCHANGED <<agg, libsAdded, readdir, procs>>

\* ----------------------------------------------------------- specification

FreshAgg ==
    [kind |-> "yaml", gather |-> TRUE, deps |-> <<>>, rest |-> OtherKeys,
     fmt |-> "raw"]

NoCmd == Cmd("none", "", "", "", "", 0)

\* The command processes that may run at the same time on one workspace.
Procs == {1, 2}

\* A process: pc is its position in AddCommand::execute, has_wasm and content
\* are its locals (the template flag, the parsed shared-wasm/moon.yml).
Proc(pc, project_type, name, has_wasm, content, result) ==
    [pc |-> pc, type |-> project_type, name |-> name, has_wasm |-> has_wasm,
     content |-> content, result |-> result]

Idle == Proc("idle", "", "", FALSE, NoFile, "")

InitFresh ==
    /\ proj = [s \in Slots |-> NoProject]
    /\ agg = FreshAgg
    /\ last = NoCmd
    /\ libsAdded = [n \in Names |-> 0]
    /\ ncmd = 0
    /\ readdir \in ReaddirOrders
    /\ procs = [p \in Procs |-> Idle]

Init == InitFresh

Next ==
    \/ \E t \in Types, n \in Names : Add(t, n)
    \/ \E n, m \in Names : Rename(n, m)

\* The add and rename commands, run one after another on a fresh workspace.
Spec == Init /\ [][Next]_vars

\* Only add commands of the four documented project types.
NextAdd ==
    \E t \in {"astro", "react", "durable-object", "crate"}, n \in Names :
        Add(t, n)

SpecFresh == InitFresh /\ [][NextAdd]_vars

\* Workspaces whose files were edited by hand before the commands run: one
\* consumer project apps/api with the given files, a library project
\* crates/api holding a deploy manifest, several consumers one of which has
\* an unparsable build manifest, or an edited shared-wasm/moon.yml.
Hand(moon, toml, json, jsonc) ==
    [dir |-> TRUE, moon |-> moon, toml |-> toml, json |-> json,
     jsonc |-> jsonc, other |-> "api"]

PlainMoon == Yaml(<<>>, <<SrcInput>>)

PlainJsonc == Jsonc(<<TextTok("{"), NameTok("top", 0, 1, "api"), TextTok("}")>>)

Json(top, name) == [kind |-> "json", top |-> top, name |-> name, fmt |-> "raw"]

HandMoons ==
    {NoFile, BadFile,
     [kind |-> "yaml", build |-> FALSE, deps |-> <<>>, inputs |-> <<>>,
      rest |-> "tasks.test",
      fmt |-> "raw"],
     Yaml(<<WasmDep>>, <<SrcInput>>),
     Yaml(<<>>, <<SrcInput, WasmInput>>),
     [Yaml(<<"^:build", WasmDep, WasmDep>>,
           <<WasmInput, SrcInput, WasmInput>>)
        EXCEPT !.rest = "tasks.build.outputs, tasks.lint"]}

HandJsoncs ==
    {Jsonc(<<TextTok("/* "), NameTok("comment", 0, 1, "doc"), TextTok(" */ {"),
             NameTok("top", 0, 1, "api"), TextTok("}")>>),
     Jsonc(<<TextTok("/** doc */ {"), NameTok("top", 1, 1, "api"),
             TextTok("}")>>),
     Jsonc(<<TextTok("{"), NameTok("top", 0, 0, "api"), TextTok(", env: {"),
             NameTok("nested", 0, 1, "api-dev"), TextTok("}}")>>),
     Jsonc(<<TextTok("{ main: 1 }")>>)}

HandProjects ==
    {Hand(m, NoFile, NoFile, PlainJsonc) : m \in HandMoons}
    \cup {Hand(PlainMoon, NoFile, NoFile, j) : j \in HandJsoncs}
    \cup {Hand(PlainMoon, BadFile, NoFile, NoFile),
          Hand(PlainMoon, NoFile, BadFile, NoFile),
          Hand(PlainMoon, NoFile, Json("object", "api"), NoFile),
          Hand(PlainMoon, NoFile, Json("array", ""), NoFile),
          Hand(PlainMoon, Toml("api", "raw"), Json("object", "api"),
               PlainJsonc),
          Hand(PlainMoon, NoFile, Json("object", "api"), PlainJsonc),
          Hand(PlainMoon, NoFile, NoFile, NoFile)}

HandAggs ==
    {NoFile, BadFile,
     [kind |-> "yaml", gather |-> FALSE, deps |-> <<>>,
      rest |-> "tasks.clean", fmt |-> "raw"],
     [kind |-> "yaml", gather |-> TRUE, rest |-> "tasks.gather.command",
      deps |-> <<"math:build", "math:build">>, fmt |-> "raw"]}

\* A library project crates/api into which a deploy manifest was put by hand.
HandCrates ==
    {Hand(PlainMoon, BadFile, NoFile, NoFile),
     Hand(PlainMoon, NoFile, NoFile, PlainJsonc)}

\* A workspace with four consumers, the build manifest of apps/api being
\* unparsable.
HandBatch ==
    [s \in Slots |->
        IF s = <<"apps", "api">>
        THEN Hand(BadFile, NoFile, NoFile, PlainJsonc)
        ELSE IF s \in {<<"sites", "math">>, <<"apps", "math">>,
                       <<"workers", "api">>}
        THEN [Hand(PlainMoon, NoFile, NoFile, NoFile) EXCEPT !.other = s[2]]
        ELSE NoProject]

InitHand ==
    /\ \/ /\ \E p \in HandProjects :
               proj = [s \in Slots |->
                          IF s = <<"apps", "api">> THEN p ELSE NoProject]
          /\ agg = FreshAgg
       \/ /\ \E p \in HandCrates :
               proj = [s \in Slots |->
                          IF s = <<"crates", "api">> THEN p ELSE NoProject]
          /\ agg = FreshAgg
       \/ /\ proj = HandBatch
          /\ agg = FreshAgg
       \/ /\ proj = [s \in Slots |-> NoProject]
          /\ agg \in HandAggs \cup {FreshAgg}
    /\ last = NoCmd
    /\ libsAdded = [n \in Names |-> 0]
    /\ ncmd = 0
    /\ readdir \in ReaddirOrders
    /\ procs = [p \in Procs |-> Idle]

NextHand ==
    \/ ncmd < MaxHandCmds /\ \E t \in Types, n \in Names : Add(t, n)
    \/ ncmd < MaxHandCmds /\ \E n, m \in Names : Rename(n, m)

SpecHand == InitHand /\ [][NextHand]_vars

\* ------------------------------------------------- concurrent invocations

\* Each command invocation is a process of its own; two `add` commands run
\* at the same time interleave at their filesystem operations.
ConcTypes == {"react", "crate"}

ConcSlot(p) == <<get_project_directory(procs[p].type), procs[p].name>>

Finish(p, result) == [procs EXCEPT ![p].pc = "done", ![p].result = result]

Goto(p, pc) == [procs EXCEPT ![p].pc = pc]

\* create_directory_if_not_exists, then get_template.
CreateDirectory(p) ==
    /\ procs[p].pc = "mkdir"
    /\ proj' = [proj EXCEPT ![ConcSlot(p)].dir = TRUE]
    /\ procs' = IF get_template(procs[p].type) = "none"
                THEN Finish(p, "UnknownType") ELSE Goto(p, "check")
    /\ UNCHANGED <<agg, last, libsAdded, ncmd, readdir>>

\* should_add_wasm_deps = is_typescript_project && has_crates().
CheckCrates(p) ==
    /\ procs[p].pc = "check"
    /\ procs' = [procs EXCEPT
                    ![p].pc = "render",
                    ![p].has_wasm =
                        /\ procs[p].type \in {"astro", "react", "durable-object"}
                        /\ has_crates(proj)]
    /\ UNCHANGED <<proj, agg, last, libsAdded, ncmd, readdir>>

\* process_template_files with the context built before.
RenderTemplate(p) ==
    /\ procs[p].pc = "render"
    /\ proj' = [proj EXCEPT
                   ![ConcSlot(p)] =
                       TemplateFiles(@, get_template(procs[p].type),
                                     procs[p].name, procs[p].has_wasm)]
    /\ procs' = IF procs[p].type = "crate"
                THEN Goto(p, "wire") ELSE Finish(p, "ok")
    /\ UNCHANGED <<agg, last, libsAdded, ncmd, readdir>>

\* Mutant: the aggregator manifest is updated inside the consumer loop.
WireConsumers_update_aggregator(p) ==
    /\ procs[p].pc = "wire"
    /\ LET w == add_wasm_dependencies_to_existing_projects(proj, readdir)
       IN /\ proj' = w.fs
          /\ procs' = IF w.ok THEN Goto(p, "read")
                      ELSE Finish(p, "ManifestError")
    /\ agg' = add_crate_build_dependency_to_shared_wasm(
                  agg, procs[p].name).file
    /\ UNCHANGED <<last, libsAdded, ncmd, readdir>>

\* add_wasm_dependencies_to_existing_projects.
WireConsumers(p) ==
    /\ procs[p].pc = "wire"
    /\ LET w == add_wasm_dependencies_to_existing_projects(proj, readdir)
       IN /\ proj' = w.fs
          /\ procs' = IF w.ok THEN Goto(p, "read")
                      ELSE Finish(p, "ManifestError")
    /\ UNCHANGED <<agg, last, libsAdded, ncmd, readdir>>

\* add_crate_build_dependency_to_shared_wasm up to the parsed content: the
\* existence test, read_to_string and serde_yaml::from_str.
ReadSharedWasm(p) ==
    /\ procs[p].pc = "read"
    /\ procs' =
         IF agg.kind = "nofile"
         THEN [procs EXCEPT ![p].pc = "done", ![p].result = "ok",
                            ![p].content = agg]
         ELSE IF agg.kind = "bad" THEN Finish(p, "ManifestError")
         ELSE [procs EXCEPT ![p].pc = "write", ![p].content = agg]
    /\ libsAdded' = IF agg.kind = "nofile"
                    THEN [libsAdded EXCEPT ![procs[p].name] = @ + 1]
                    ELSE libsAdded
    /\ UNCHANGED <<proj, agg, last, ncmd, readdir>>

\* Mutant: the file is read again under a lock when it is written.
WriteBack_locked(current, content, crate_name) ==
    add_crate_build_dependency_to_shared_wasm(current, crate_name).file

\* The file after fs::write: the content parsed earlier with the crate
\* target pushed, whatever the file holds by now.
WriteBack(current, content, crate_name) ==
    add_crate_build_dependency_to_shared_wasm(content, crate_name).file

\* The rest of add_crate_build_dependency_to_shared_wasm: the push into the
\* parsed content, serde_yaml::to_string and fs::write.
WriteSharedWasm(p) ==
    /\ procs[p].pc = "write"
    /\ agg' = WriteBack(agg, procs[p].content, procs[p].name)
    /\ procs' = Finish(p, "ok")
    /\ libsAdded' = [libsAdded EXCEPT ![procs[p].name] = @ + 1]
    /\ UNCHANGED <<proj, last, ncmd, readdir>>

InitConcurrent ==
    /\ proj = [s \in Slots |-> NoProject]
    /\ agg = FreshAgg
    /\ last = NoCmd
    /\ libsAdded = [n \in Names |-> 0]
    /\ ncmd = 0
    /\ readdir \in ReaddirOrders
    /\ procs \in [Procs -> {Proc("mkdir", t, n, FALSE, NoFile, "") :
                               t \in ConcTypes, n \in Names}]

NextConcurrent ==
    \/ \E p \in Procs : CreateDirectory(p)
    \/ \E p \in Procs : CheckCrates(p)
    \/ \E p \in Procs : RenderTemplate(p)
    \/ \E p \in Procs : WireConsumers(p)
    \/ \E p \in Procs : ReadSharedWasm(p)
    \/ \E p \in Procs : WriteSharedWasm(p)

\* Two add commands started at the same time on a fresh workspace.
SpecConcurrent == InitConcurrent /\ [][NextConcurrent]_vars

\* ------------------------------------------------- the phases of a rename

\* One run of RenameCommand::execute followed through its phases, held in
\* procs[1].pc: Validating (find_project and the destination test),
\* Mutating (update_wrangler_config and fs::rename), and the two ends
\* Committed (Ok returned) and Failed (an error returned).
RenameStart(current_name, new_name) ==
    /\ procs[1].pc = "idle"
    /\ procs' = [procs EXCEPT
                    ![1] = Proc("Validating", "", current_name, FALSE,
                                NoFile, "")]
    /\ last' = Cmd("rename", "", current_name, new_name, "", 0)
    /\ UNCHANGED <<proj, agg, libsAdded, ncmd, readdir>>

RenameEnd(pc, project_type, result) ==
    /\ procs' = [procs EXCEPT ![1].pc = pc, ![1].type = project_type,
                              ![1].result = result]
    /\ last' = [last EXCEPT !.type = project_type, !.result = result]

\* find_project, then the test that the new path does not exist.
RenameValidate ==
    /\ procs[1].pc = "Validating"
    /\ LET f == find_project(proj, last.name)
           new_project_path == <<f.dir, last.new>>
       IN IF ~f.found THEN RenameEnd("Failed", "", "ProjectNotFound")
          ELSE IF PathExists(proj, new_project_path)
          THEN RenameEnd("Failed", f.type, "DestinationAlreadyExists")
          ELSE RenameEnd("Mutating", f.type, "")
    /\ UNCHANGED <<proj, agg, libsAdded, ncmd, readdir>>

\* update_wrangler_config for a web project, then fs::rename.
RenameMutate ==
    /\ procs[1].pc = "Mutating"
    /\ \E can_write, can_move \in BOOLEAN :
         LET project_type == procs[1].type
             project_path == <<get_project_directory(project_type), last.name>>
             new_project_path ==
                 <<get_project_directory(project_type), last.new>>
             u == IF IsWebType(project_type)
                  THEN update_wrangler_config(proj[project_path], last.new,
                                              can_write)
                  ELSE [ok |-> TRUE, p |-> proj[project_path]]
             updated == [proj EXCEPT ![project_path] = u.p]
         IN IF ~u.ok
            THEN /\ RenameEnd("Failed", project_type, "IdentityError")
                 /\ proj' = proj
            ELSE IF ~can_move
            THEN /\ RenameEnd("Failed", project_type, "MoveError")
                 /\ proj' = updated
            ELSE /\ RenameEnd("Committed", project_type, "ok")
                 /\ proj' = MoveDir(updated, project_path, new_project_path)
    /\ UNCHANGED <<agg, libsAdded, ncmd, readdir>>

NextRun ==
    \/ /\ procs[1].pc = "idle"
       /\ ncmd < MaxSetupCmds
       /\ \E t \in Types, n \in Names : Add(t, n)
    \/ \E n, m \in Names : RenameStart(n, m)
    \/ RenameValidate
    \/ RenameMutate

\* Add commands set a fresh workspace up, then one rename runs; a command
\* that has started runs on until it returns.
SpecRun ==
    /\ InitFresh
    /\ [][NextRun]_vars
    /\ WF_vars(RenameValidate)
    /\ WF_vars(RenameMutate)

\* ------------------------------------------------------------- properties

IsConsumerSlot(s) == s[1] \in {"sites", "apps", "workers"}

\* A build manifest declares the library dependency: build.deps holds the
\* gather task and build.inputs holds the artifact glob.
DeclaresLibraryDependency(m) ==
    /\ m.kind = "yaml"
    /\ m.build
    /\ Contains(m.deps, WasmDep)
    /\ Contains(m.inputs, WasmInput)

SomeLibraryAdded == \E n \in Names : libsAdded[n] > 0

Count(seq, e) == Cardinality({i \in 1..Len(seq) : seq[i] = e})

\* The deps and inputs of every consumer's build manifest.
ConsumerLists ==
    [s \in {x \in Slots : IsConsumerSlot(x)} |->
        IF proj[s].moon.kind = "yaml"
        THEN <<proj[s].moon.deps, proj[s].moon.inputs>> ELSE <<>>]

AggDeps == IF agg.kind = "yaml" THEN agg.deps ELSE <<>>

\* The deploy manifest in force, by the precedence TOML, JSON, JSONC.
HasDeployManifest(p) ==
    p.toml.kind # "nofile" \/ p.json.kind # "nofile" \/ p.jsonc.kind # "nofile"

TopNameIndex(toks) ==
    IF \E i \in 1..Len(toks) : toks[i].t = "name" /\ toks[i].ctx = "top"
    THEN CHOOSE i \in 1..Len(toks) :
            /\ toks[i].t = "name" /\ toks[i].ctx = "top"
            /\ \A j \in 1..(i - 1) :
                  ~(toks[j].t = "name" /\ toks[j].ctx = "top")
    ELSE 0

\* The value of the name field of the deploy manifest in force; "<none>"
\* when the manifest has no readable top-level name.
DeployName(p) ==
    IF p.toml.kind # "nofile"
    THEN (IF p.toml.kind = "toml" THEN p.toml.name ELSE "<none>")
    ELSE IF p.json.kind # "nofile"
    THEN (IF p.json.kind = "json" /\ p.json.top = "object"
          THEN p.json.name ELSE "<none>")
    ELSE IF p.jsonc.kind = "jsonc" /\ TopNameIndex(p.jsonc.toks) > 0
    THEN p.jsonc.toks[TopNameIndex(p.jsonc.toks)].val
    ELSE "<none>"

RenameDone(result) == last.op = "rename" /\ last.result = result

\* The directory a rename worked in and the two paths it was about.
LastDir == get_project_directory(last.type)

LastOld == <<LastDir, last.name>>

LastNew == <<LastDir, last.new>>

\* C1: after any sequence of add commands of the types astro, react,
\* durable-object and crate on a fresh workspace, every consumer's build
\* manifest declares the library dependency iff a library has been added.
C1_ConsumersDeclareIffLibrary ==
    \A s \in Slots :
        (IsConsumerSlot(s) /\ proj[s].dir)
            => (DeclaresLibraryDependency(proj[s].moon) <=> SomeLibraryAdded)

\* C1 witness: one consumer was wired by a later `add crate`, another was
\* scaffolded after the crate existed.
C1_Witness ==
    /\ SomeLibraryAdded
    /\ \E s, t \in Slots :
          /\ IsConsumerSlot(s) /\ IsConsumerSlot(t)
          /\ proj[s].dir /\ proj[t].dir
          /\ proj[s].moon.fmt = "norm" /\ proj[t].moon.fmt = "raw"
          /\ DeclaresLibraryDependency(proj[s].moon)
          /\ DeclaresLibraryDependency(proj[t].moon)

\* C2: running `add crate L` a second time right after the first leaves
\* every consumer's deps and inputs and the aggregator's gather.deps as the
\* first run left them.
C2_LibraryAddedIdempotent ==
    [][(/\ last.op = "add" /\ last.type = "crate"
        /\ last'.op = "add" /\ last'.type = "crate"
        /\ last'.name = last.name)
       => (ConsumerLists' = ConsumerLists /\ AggDeps' = AggDeps)]_vars

\* C2 witness: a library was added twice in a workspace with a wired consumer.
C2_Witness ==
    /\ \E n \in Names : libsAdded[n] >= 2
    /\ last.op = "add" /\ last.type = "crate" /\ last.result = "ok"
    /\ \E s \in Slots :
          /\ IsConsumerSlot(s) /\ proj[s].dir
          /\ DeclaresLibraryDependency(proj[s].moon)

\* C3: starting without duplicates, no consumer's build.deps or
\* build.inputs and no gather.deps ever holds an entry twice; math added
\* twice leaves exactly one "math:build".
C3_NoDuplicateEntries ==
    /\ \A s \in Slots :
          (IsConsumerSlot(s) /\ proj[s].moon.kind = "yaml")
              => /\ NoDuplicates(proj[s].moon.deps)
                 /\ NoDuplicates(proj[s].moon.inputs)
    /\ NoDuplicates(AggDeps)
    /\ libsAdded["math"] >= 2 => Count(AggDeps, "math:build") = 1

\* C3 witness: math was added twice beside a consumer that was wired.
C3_Witness ==
    /\ libsAdded["math"] >= 2
    /\ \E s \in Slots :
          /\ IsConsumerSlot(s) /\ proj[s].dir
          /\ Count(proj[s].moon.deps, WasmDep) = 1

\* C4: with a gather task in the aggregator manifest, gather.deps holds
\* "<L>:build" for every library L whose add command completed.
C4_AggregatorListsAddedLibraries ==
    (agg.kind = "yaml" /\ agg.gather)
        => \A n \in Names :
              libsAdded[n] > 0 => Contains(agg.deps, n \o ":build")

\* C4 witness: two different libraries were added.
C4_Witness ==
    /\ agg.kind = "yaml" /\ agg.gather
    /\ \E n, m \in Names : n # m /\ libsAdded[n] > 0 /\ libsAdded[m] > 0

\* C5: when update_identity fails during a rename, the project directory
\* is still at its original path and no directory exists at the new name.
C5_RenameAtomicity ==
    RenameDone("IdentityError")
        => (proj[LastOld].dir /\ ~proj[LastNew].dir)

\* C5 witness: a rename of a web project ended with a failed identity update.
C5_Witness ==
    /\ RenameDone("IdentityError")
    /\ IsWebType(last.type)
    /\ last.name # last.new
    /\ HasDeployManifest(proj[LastOld])

\* C6: a successful rename leaves <category>/<new> in place of
\* <category>/<old>, touches no other directory, and carries the build
\* manifest and the other files of the project over unchanged.
C6_RenameMovesDirectory ==
    [][(last'.op = "rename" /\ last'.result = "ok")
       => LET d == get_project_directory(last'.type)
              old == <<d, last'.name>>
              new == <<d, last'.new>>
          IN /\ proj[old].dir /\ ~proj[new].dir
             /\ proj'[new].dir /\ ~proj'[old].dir
             /\ proj'[new].moon = proj[old].moon
             /\ proj'[new].other = proj[old].other
             /\ \A s \in Slots \ {old, new} : proj'[s] = proj[s]]_vars

\* C6 witness: a scaffolded react project was renamed and still holds the
\* files rendered under its first name.
C6_Witness ==
    /\ RenameDone("ok")
    /\ last.type = "react"
    /\ proj[LastNew].dir /\ ~proj[LastOld].dir
    /\ proj[LastNew].other = last.name

\* C7: after a successful rename of a web-facing project that holds a
\* deploy manifest, the manifest's name field equals the new name.
C7_DeployNameIsNewName ==
    (RenameDone("ok") /\ IsWebType(last.type)
        /\ HasDeployManifest(proj[LastNew]))
        => DeployName(proj[LastNew]) = last.new

\* C8: a rename whose destination exists in the category directory of the
\* source fails with DestinationAlreadyExists and changes nothing.
C8_DestinationExistsFails ==
    [][(last'.op = "rename"
        /\ find_project(proj, last'.name).found
        /\ proj[<<find_project(proj, last'.name).dir, last'.new>>].dir)
       => (/\ last'.result = "DestinationAlreadyExists"
           /\ proj' = proj
           /\ agg' = agg)]_vars

\* C8 witness: a rename onto another project of the same directory failed.
C8_Witness ==
    /\ RenameDone("DestinationAlreadyExists")
    /\ last.name # last.new
    /\ proj[LastOld].dir /\ proj[LastNew].dir

\* C9: a rename of a name no category directory holds fails with
\* ProjectNotFound and changes nothing.
C9_NotFoundFails ==
    [][(last'.op = "rename" /\ \A d \in Dirs : ~proj[<<d, last'.name>>].dir)
       => (/\ last'.result = "ProjectNotFound"
           /\ proj' = proj
           /\ agg' = agg)]_vars

\* C9 witness: a rename failed with ProjectNotFound in a workspace that
\* holds a project under the new name already.
C9_Witness ==
    /\ RenameDone("ProjectNotFound")
    /\ \E d \in Dirs : proj[<<d, last.new>>].dir

\* C10: a rename of a project whose deploy manifest is JSONC changes only
\* the value of the name field; every other byte of the file, the
\* whitespace around the colon of the name key included, stays the same.
C10_JsoncOnlyNameValueChanges ==
    [][(last'.op = "rename" /\ last'.result = "ok" /\ IsWebType(last'.type))
       => LET d == get_project_directory(last'.type)
              before == proj[<<d, last'.name>>]
              after == proj'[<<d, last'.new>>]
          IN (before.toml.kind = "nofile" /\ before.json.kind = "nofile"
                /\ before.jsonc.kind = "jsonc")
             => /\ after.jsonc.kind = "jsonc"
                /\ Len(after.jsonc.toks) = Len(before.jsonc.toks)
                /\ \A i \in 1..Len(before.jsonc.toks) :
                      \/ after.jsonc.toks[i] = before.jsonc.toks[i]
                      \/ /\ i = TopNameIndex(before.jsonc.toks)
                         /\ after.jsonc.toks[i] =
                              [before.jsonc.toks[i] EXCEPT
                                  !.val = after.jsonc.toks[i].val]]_vars

\* C11: the destination check of rename looks only at the category directory
\* of the source: when the new name is free there and taken by a project of
\* another category, the rename is not refused for the destination (it ends
\* ok unless the filesystem refuses the manifest write or the move), and
\* after it both projects exist under the new name, each in its own
\* category directory.
C11_DestinationCheckPerCategory ==
    [][(/\ last'.op = "rename"
        /\ find_project(proj, last'.name).found
        /\ ~proj[<<find_project(proj, last'.name).dir, last'.new>>].dir
        /\ \E d \in Dirs : proj[<<d, last'.new>>].dir)
       => LET own == find_project(proj, last'.name).dir
          IN /\ last'.result \in {"ok", "IdentityError", "MoveError"}
             /\ last'.result = "ok"
                  => /\ proj'[<<own, last'.new>>].dir
                     /\ \A d \in Dirs \ {own} :
                           proj'[<<d, last'.new>>] = proj[<<d, last'.new>>]]_vars

\* C11 witness: a rename ended ok onto a name that a project of another
\* category holds, and both directories exist.
C11_Witness ==
    /\ RenameDone("ok")
    /\ last.name # last.new
    /\ proj[LastNew].dir
    /\ \E d \in Dirs \ {LastDir} : proj[<<d, last.new>>].dir

\* Exactly one of the two entries of the library dependency is present.
HoldsOnlyOneEntry(m) ==
    /\ m.kind = "yaml"
    /\ m.build
    /\ Contains(m.deps, WasmDep) # Contains(m.inputs, WasmInput)

\* C12: the check made on a consumer's build manifest answers true exactly
\* when build.deps holds the gather task and build.inputs holds the artifact
\* glob; a manifest holding only one of the two is answered false, and a
\* completed `add crate` therefore leaves it with both.
C12_DeclaresIffDepsAndInputs ==
    [][(last'.op = "add" /\ last'.type = "crate" /\ last'.result = "ok")
       => \A s \in Slots :
             (IsConsumerSlot(s) /\ proj[s].dir /\ proj[s].moon.kind = "yaml")
                => /\ has_wasm_dependency(proj[s].moon)
                        <=> DeclaresLibraryDependency(proj[s].moon)
                   /\ HoldsOnlyOneEntry(proj[s].moon)
                        => DeclaresLibraryDependency(proj'[s].moon)]_vars

\* C13: a rename of a project found in crates/ only moves the directory: it
\* never fails on a deploy manifest, and every wrangler file of the
\* workspace, those inside the moved directory included, is left as it was.
C13_CrateRenameOnlyMoves ==
    [][(/\ last'.op = "rename"
        /\ find_project(proj, last'.name).found
        /\ find_project(proj, last'.name).type = "crate")
       => LET old == <<"crates", last'.name>>
              new == <<"crates", last'.new>>
          IN /\ last'.result # "IdentityError"
             /\ last'.result = "ok"
                  => /\ proj'[new] = proj[old]
                     /\ proj'[old] = NoProject
                     /\ \A s \in Slots \ {old, new} : proj'[s] = proj[s]
             /\ last'.result # "ok" => proj' = proj]_vars

\* C13 witness: a library project that holds a wrangler file was renamed.
C13_Witness ==
    /\ RenameDone("ok")
    /\ last.type = "crate"
    /\ last.name # last.new
    /\ HasDeployManifest(proj[LastNew])

\* The consumer projects the scan of sites/, apps/ and workers/ returns.
ScannedConsumers ==
    {s \in Slots : Contains(get_typescript_projects(proj, readdir), s)}

\* C14: after a completed `add crate`, every consumer project the scan
\* returns has a build manifest that declares the library dependency,
\* whatever the manifest held before (neither entry, only the deps entry,
\* only the inputs entry, or no build task).
C14_AllConsumersDeclareAfterAdd ==
    [][(last'.op = "add" /\ last'.type = "crate" /\ last'.result = "ok")
       => \A s \in ScannedConsumers :
             DeclaresLibraryDependency(proj'[s].moon)]_vars

\* C15: the count a completed `add crate` reports equals the number of
\* consumer projects whose build.deps or build.inputs differ from what they
\* were before the command; a consumer left with the same deps and inputs
\* is not counted.
C15_CountIsProjectsChanged ==
    [][(last'.op = "add" /\ last'.type = "crate" /\ last'.result = "ok")
       => last'.count =
            Cardinality({s \in Slots :
                            /\ IsConsumerSlot(s)
                            /\ ConsumerLists'[s] # ConsumerLists[s]})]_vars

\* C16: after a completed `add crate`, the aggregator's gather.deps holds no
\* entry twice, and neither does the build.deps or build.inputs of any
\* consumer the dependency was added to, duplicates that were in the lists
\* before the command included.
C16_NoDuplicatesAfterMutation ==
    [][(last'.op = "add" /\ last'.type = "crate" /\ last'.result = "ok")
       => /\ agg'.kind = "yaml" => NoDuplicates(agg'.deps)
          /\ \A s \in ScannedConsumers :
                (~has_wasm_dependency(proj[s].moon)
                    /\ proj'[s].moon.kind = "yaml")
                   => /\ NoDuplicates(proj'[s].moon.deps)
                      /\ NoDuplicates(proj'[s].moon.inputs)]_vars

\* C17: after any sequence of add and rename commands, gather.deps holds
\* "<L>:build" for every library project crates/<L> of the workspace, a
\* renamed library being listed under its new name.
C17_AggregatorListsPresentLibraries ==
    (agg.kind = "yaml" /\ agg.gather)
        => \A n \in Names :
              proj[<<"crates", n>>].dir => Contains(agg.deps, n \o ":build")

\* Process p is an `add crate` that ran to its end without an error.
LibraryAddDone(p) ==
    /\ procs[p].type = "crate"
    /\ procs[p].pc = "done"
    /\ procs[p].result = "ok"

\* Process p read shared-wasm/moon.yml before process q wrote it: what p
\* parsed does not hold q's target.
ReadBeforeWriteOf(p, q) ==
    /\ procs[p].content.kind = "yaml"
    /\ ~Contains(procs[p].content.deps, procs[q].name \o ":build")

\* C18: when two `add crate` commands for different libraries run at the
\* same time and each reads the aggregator manifest before the other writes
\* it, both commands succeed and gather.deps lacks the target of one of
\* them: one update is lost.
C18_LostUpdate ==
    \A p, q \in Procs :
        (/\ p # q
         /\ procs[p].name # procs[q].name
         /\ LibraryAddDone(p) /\ LibraryAddDone(q)
         /\ ReadBeforeWriteOf(p, q) /\ ReadBeforeWriteOf(q, p))
        => \/ ~Contains(AggDeps, procs[p].name \o ":build")
           \/ ~Contains(AggDeps, procs[q].name \o ":build")

\* C18 witness: both commands have succeeded, both library directories
\* exist, and gather.deps holds the target of only one of them.
C18_Witness ==
    /\ LibraryAddDone(1) /\ LibraryAddDone(2)
    /\ procs[1].name # procs[2].name
    /\ ReadBeforeWriteOf(1, 2) /\ ReadBeforeWriteOf(2, 1)
    /\ proj[<<"crates", procs[1].name>>].dir
    /\ proj[<<"crates", procs[2].name>>].dir
    /\ Len(AggDeps) = 1

\* The position in the scan of the first consumer whose build manifest
\* cannot be read or parsed, 0 when there is none.
FirstUnreadable(order) ==
    IF \E i \in 1..Len(order) : proj[order[i]].moon.kind = "bad"
    THEN CHOOSE i \in 1..Len(order) :
            /\ proj[order[i]].moon.kind = "bad"
            /\ \A j \in 1..(i - 1) : proj[order[j]].moon.kind # "bad"
    ELSE 0

\* C19: when the batch of `add crate` meets a consumer whose build manifest
\* cannot be parsed, the command ends with that error; the consumers scanned
\* before it keep the dependency they were given, and the failing consumer,
\* the consumers after it and the aggregator manifest are as before.
C19_PartialProgressKept ==
    [][(/\ last'.op = "add" /\ last'.type = "crate"
        /\ FirstUnreadable(get_typescript_projects(proj, readdir)) > 0)
       => LET order == get_typescript_projects(proj, readdir)
              k == FirstUnreadable(order)
          IN /\ last'.result = "ManifestError"
             /\ agg' = agg
             /\ \A i \in 1..(k - 1) :
                   IF has_wasm_dependency(proj[order[i]].moon)
                   THEN proj'[order[i]] = proj[order[i]]
                   ELSE /\ Contains(proj'[order[i]].moon.deps, WasmDep)
                        /\ Contains(proj'[order[i]].moon.inputs, WasmInput)
             /\ \A i \in k..Len(order) : proj'[order[i]] = proj[order[i]]]_vars

\* C19 witness: an `add crate` ended with the manifest error after it had
\* wired one consumer, and left a consumer after the failing one unwired.
C19_Witness ==
    /\ last.op = "add" /\ last.type = "crate"
    /\ last.result = "ManifestError"
    /\ last.count > 0
    /\ ~Contains(AggDeps, last.name \o ":build")
    /\ \E s, f, t \in Slots :
          /\ IsConsumerSlot(s) /\ IsConsumerSlot(f) /\ IsConsumerSlot(t)
          /\ DeclaresLibraryDependency(proj[s].moon)
          /\ proj[s].moon.fmt = "norm"
          /\ proj[f].moon.kind = "bad"
          /\ proj[t].moon = PlainMoon

\* C20: when the directory move of a rename fails after the deploy manifest
\* was updated, nothing is rolled back: the command ends in failure, the
\* project directory is still at its old path, no directory exists at the
\* new path, and the name field of the deploy manifest is the new name.
C20_NoRollbackAfterMoveFailure ==
    (RenameDone("MoveError") /\ IsWebType(last.type)
        /\ HasDeployManifest(proj[LastOld]))
        => /\ proj[LastOld].dir
           /\ ~proj[LastNew].dir
           /\ DeployName(proj[LastOld]) = last.new

RenamePhase == procs[1].pc

\* The phase changes the claim of C21 allows.
PhaseStepsClaimed ==
    {<<"idle", "Validating">>, <<"Validating", "Mutating">>,
     <<"Mutating", "Committed">>, <<"Validating", "Failed">>}

\* Mutating is entered only with the source found and the destination free.
MutatingEnteredValidated ==
    [][(RenamePhase' = "Mutating" /\ RenamePhase # "Mutating")
       => /\ find_project(proj, last.name).found
          /\ ~proj[<<find_project(proj, last.name).dir, last.new>>].dir]_vars

\* Every run that has started reaches Committed or Failed.
RunEnds ==
    (RenamePhase = "Validating") ~> (RenamePhase \in {"Committed", "Failed"})

CategoryOrder ==
    <<<<"sites", "astro">>, <<"apps", "react">>,
      <<"workers", "durable-object">>, <<"crates", "crate">>>>

\* The position in CategoryOrder of the first directory that holds name.
FirstHolding(fs, name) ==
    CHOOSE i \in 1..Len(CategoryOrder) :
        /\ fs[<<CategoryOrder[i][1], name>>].dir
        /\ \A j \in 1..(i - 1) : ~fs[<<CategoryOrder[j][1], name>>].dir

\* C24: find_project returns the first of sites, apps, workers, crates that
\* holds the name, with its category; a rename works in that directory only
\* and leaves a project of the same name in any other category as it was.
C24_FirstCategoryInOrder ==
    [][(last'.op = "rename" /\ \E d \in Dirs : proj[<<d, last'.name>>].dir)
       => LET c == CategoryOrder[FirstHolding(proj, last'.name)]
          IN /\ find_project(proj, last'.name) =
                   [found |-> TRUE, dir |-> c[1], type |-> c[2]]
             /\ last'.type = c[2]
             /\ \A e \in Dirs \ {c[1]}, n \in Names :
                   proj'[<<e, n>>] = proj[<<e, n>>]
             /\ last'.result = "ok"
                  => /\ ~proj'[<<c[1], last'.name>>].dir
                     /\ proj'[<<c[1], last'.new>>].dir]_vars

\* C24 witness: a name held by two categories was renamed; the project of
\* the later category is still there under the old name.
C24_Witness ==
    /\ RenameDone("ok")
    /\ last.name # last.new
    /\ ~proj[LastOld].dir /\ proj[LastNew].dir
    /\ \E i, j \in 1..Len(CategoryOrder) :
          /\ i < j
          /\ CategoryOrder[i][1] = LastDir
          /\ proj[<<CategoryOrder[j][1], last.name>>].dir

\* The three deploy-manifest files of a project directory.
DeployFiles == {"toml", "json", "jsonc"}

\* C25: a rename whose update_identity succeeded rewrote one deploy
\* manifest, the first present of wrangler.toml, wrangler.json,
\* wrangler.jsonc; every deploy manifest of lower precedence is unchanged
\* and no deploy manifest was created.
C25_OneManifestByPrecedence ==
    [][(/\ last'.op = "rename" /\ last'.result \in {"ok", "MoveError"}
        /\ IsWebType(last'.type))
       => LET d == get_project_directory(last'.type)
              before == proj[<<d, last'.name>>]
              after == IF last'.result = "ok" THEN proj'[<<d, last'.new>>]
                       ELSE proj'[<<d, last'.name>>]
          IN /\ \A k \in DeployFiles :
                   after[k].kind = "nofile" <=> before[k].kind = "nofile"
             /\ before.toml.kind # "nofile"
                  => /\ after.toml.fmt = "norm"
                     /\ after.toml.name = last'.new
                     /\ after.json = before.json
                     /\ after.jsonc = before.jsonc
             /\ (before.toml.kind = "nofile" /\ before.json.kind # "nofile")
                  => /\ after.json.fmt = "norm"
                     /\ after.jsonc = before.jsonc
             /\ (before.toml.kind = "nofile" /\ before.json.kind = "nofile"
                   /\ before.jsonc.kind # "nofile")
                  => after.jsonc.toks =
                        ReplaceFirstName(before.jsonc.toks, last'.new)]_vars

\* C25 witness: a project holding all three deploy manifests was renamed;
\* wrangler.toml carries the new name, the other two still the old one.
C25_Witness ==
    /\ RenameDone("ok")
    /\ last.name # last.new
    /\ proj[LastNew].toml.kind = "toml" /\ proj[LastNew].toml.name = last.new
    /\ proj[LastNew].json.kind = "json" /\ proj[LastNew].json.name = last.name
    /\ proj[LastNew].json.fmt = "raw"
    /\ proj[LastNew].jsonc = PlainJsonc

\* The positions of the occurrences of a "name" key with a quoted value.
NameOccurrences(toks) == {i \in 1..Len(toks) : toks[i].t = "name"}

\* C26: in a JSONC deploy manifest with more than one occurrence of a
\* "name" key, a rename whose update succeeded rewrote the value of the
\* first occurrence in the text and left every later occurrence, and all
\* text between them, unchanged.  The value written is the replacement
\* string as Regex::replace expands it (C7).
C26_JsoncFirstOccurrenceOnly ==
    [][(/\ last'.op = "rename" /\ last'.result \in {"ok", "MoveError"}
        /\ IsWebType(last'.type))
       => LET d == get_project_directory(last'.type)
              before == proj[<<d, last'.name>>]
              after == IF last'.result = "ok" THEN proj'[<<d, last'.new>>]
                       ELSE proj'[<<d, last'.name>>]
          IN (/\ before.toml.kind = "nofile" /\ before.json.kind = "nofile"
              /\ before.jsonc.kind = "jsonc"
              /\ Cardinality(NameOccurrences(before.jsonc.toks)) > 1)
             => LET first == CHOOSE i \in NameOccurrences(before.jsonc.toks) :
                                \A j \in NameOccurrences(before.jsonc.toks) :
                                    i <= j
                IN /\ after.jsonc.kind = "jsonc"
                   /\ Len(after.jsonc.toks) = Len(before.jsonc.toks)
                   /\ after.jsonc.toks[first].t = "name"
                   /\ after.jsonc.toks[first].val =
                         ExpandReplacement(last'.new)
                   /\ \A i \in 1..Len(before.jsonc.toks) \ {first} :
                         after.jsonc.toks[i] = before.jsonc.toks[i]]_vars

\* C26 witness: a manifest whose first "name" stands in a comment was
\* renamed; the comment carries the new name, the top-level field the old.
C26_Witness ==
    /\ RenameDone("ok")
    /\ last.name # last.new
    /\ proj[LastNew].jsonc.kind = "jsonc"
    /\ \E i, j \in NameOccurrences(proj[LastNew].jsonc.toks) :
          /\ i < j
          /\ proj[LastNew].jsonc.toks[i].ctx = "comment"
          /\ proj[LastNew].jsonc.toks[i].val = last.new
          /\ proj[LastNew].jsonc.toks[j].ctx = "top"
          /\ proj[LastNew].jsonc.toks[j].val = last.name

\* C27: a rename of a web-facing project whose directory holds no deploy
\* manifest, onto a free name, is never ended by update_identity: it ends
\* ok with the directory moved as it was, unless the move itself fails.
C27_MissingManifestContinues ==
    [][(/\ last'.op = "rename"
        /\ find_project(proj, last'.name).found
        /\ IsWebType(find_project(proj, last'.name).type)
        /\ ~HasDeployManifest(
               proj[<<find_project(proj, last'.name).dir, last'.name>>])
        /\ ~proj[<<find_project(proj, last'.name).dir, last'.new>>].dir)
       => LET d == find_project(proj, last'.name).dir
              old == <<d, last'.name>>
              new == <<d, last'.new>>
          IN /\ last'.result \in {"ok", "MoveError"}
             /\ last'.result = "ok"
                  => /\ proj'[new] = proj[old]
                     /\ proj'[old] = NoProject
             /\ last'.result = "MoveError" => proj' = proj]_vars

\* C27 witness: a web-facing project without any deploy manifest was
\* renamed and stands under the new name.
C27_Witness ==
    /\ RenameDone("ok")
    /\ IsWebType(last.type)
    /\ last.name # last.new
    /\ proj[LastNew].dir /\ ~proj[LastOld].dir
    /\ ~HasDeployManifest(proj[LastNew])

\* The list new is the list old, or old with the missing entry e appended
\* at its end.
AppendedAtEnd(old, new, e) ==
    \/ new = old
    \/ ~Contains(old, e) /\ new = Append(old, e)

\* C23: the repair of the consumers and of the aggregator that `add crate`
\* runs changes nothing but the target lists: every other key and section
\* of a manifest is kept, the entries already in deps, inputs and
\* gather.deps stay in their order, a missing entry is appended at the end,
\* and no other file of a consumer is touched.
C23_OnlyTargetListsChange ==
    [][(last'.op = "add" /\ last'.type = "crate")
       => /\ \A s \in Slots :
                IsConsumerSlot(s)
                    => /\ [proj'[s] EXCEPT !.moon = NoFile] =
                              [proj[s] EXCEPT !.moon = NoFile]
                       /\ proj[s].moon.kind # "yaml"
                            => proj'[s].moon = proj[s].moon
                       /\ proj[s].moon.kind = "yaml"
                            => /\ proj'[s].moon.kind = "yaml"
                               /\ proj'[s].moon.build = proj[s].moon.build
                               /\ proj'[s].moon.rest = proj[s].moon.rest
                               /\ AppendedAtEnd(proj[s].moon.deps,
                                                proj'[s].moon.deps, WasmDep)
                               /\ AppendedAtEnd(proj[s].moon.inputs,
                                                proj'[s].moon.inputs,
                                                WasmInput)
          /\ agg.kind # "yaml" => agg' = agg
          /\ agg.kind = "yaml"
                => /\ agg'.kind = "yaml"
                   /\ agg'.gather = agg.gather
                   /\ agg'.rest = agg.rest
                   /\ AppendedAtEnd(agg.deps, agg'.deps,
                                    last'.name \o ":build")]_vars

\* C23 witness: a second library was added; its target stands last in
\* gather.deps behind the first, and a repaired consumer holds the library
\* entries behind the entries it had, with its other keys.
C23_Witness ==
    /\ last.op = "add" /\ last.type = "crate" /\ last.result = "ok"
    /\ agg.kind = "yaml" /\ Len(agg.deps) >= 2
    /\ agg.deps[Len(agg.deps)] = last.name \o ":build"
    /\ agg.rest = OtherKeys
    /\ \E s \in Slots :
          /\ IsConsumerSlot(s) /\ proj[s].moon.kind = "yaml"
          /\ proj[s].moon.fmt = "norm"
          /\ proj[s].moon.inputs = <<SrcInput, WasmInput>>
          /\ proj[s].moon.deps = <<WasmDep>>
          /\ proj[s].moon.rest = OtherKeys

\* C28: `add crate` in a workspace where a consumer directory holds no
\* build manifest, or where the aggregator manifest does not exist: the two
\* repair functions return success on the missing file, no file is created,
\* the directory and the missing aggregator stay as they were, and the
\* missing files do not make the command fail.
C28_MissingManifestIsNoOp ==
    [][(last'.op = "add" /\ last'.type = "crate")
       => /\ \A s \in Slots :
                (IsConsumerSlot(s) /\ proj[s].dir
                    /\ proj[s].moon.kind = "nofile")
                    => /\ add_wasm_dependency_to_project(proj[s].moon) =
                              [ok |-> TRUE, file |-> NoFile]
                       /\ proj'[s] = proj[s]
          /\ agg.kind = "nofile"
                => /\ add_crate_build_dependency_to_shared_wasm(
                          agg, last'.name) = [ok |-> TRUE, file |-> NoFile]
                   /\ agg' = NoFile
          /\ (/\ agg.kind = "nofile"
              /\ \A s \in Slots :
                    IsConsumerSlot(s) => proj[s].moon.kind # "bad")
                => last'.result = "ok"]_vars

\* C28 witness: a library was added with success in a workspace without
\* aggregator manifest that holds a consumer directory without build
\* manifest; neither file exists afterwards.
C28_Witness ==
    /\ last.op = "add" /\ last.type = "crate" /\ last.result = "ok"
    /\ agg = NoFile
    /\ proj[<<"crates", last.name>>].dir
    /\ \E s \in Slots :
          IsConsumerSlot(s) /\ proj[s].dir /\ proj[s].moon = NoFile

\* The type strings the add command places in a consumer directory.
ConsumerTypeNames == {"astro", "react", "durable-object", "worker"}

\* C30: a consumer added with success under any of the type names astro,
\* react, durable-object or worker while a library exists is scaffolded with
\* the library dependency declared in its build manifest.
C30_EveryConsumerTypeWired ==
    [][(/\ last'.op = "add" /\ last'.type \in ConsumerTypeNames
        /\ last'.result = "ok"
        /\ has_crates(proj))
       => DeclaresLibraryDependency(
              proj'[<<get_project_directory(last'.type), last'.name>>].moon)]_vars

\* The part of C30 the code keeps: the types of is_typescript_project.
C30_DocumentedTypesWired ==
    [][(/\ last'.op = "add"
        /\ last'.type \in ConsumerTypeNames \ {"worker"}
        /\ last'.result = "ok"
        /\ has_crates(proj))
       => DeclaresLibraryDependency(
              proj'[<<get_project_directory(last'.type), last'.name>>].moon)]_vars

\* Process p leaves the program position pc in this step.
Leaves(p, pc) == procs[p].pc = pc /\ procs'[p].pc # pc

\* Process p comes to the program position pc in this step.
Enters(p, pc) == procs[p].pc # pc /\ procs'[p].pc = pc

\* C22: an `add crate L` command comes to the aggregator update only from
\* the finished consumer loop, writes the aggregator manifest in one step
\* that ends the command, and what it writes is the content it read with
\* "L:build" in gather.deps; no other step changes the aggregator manifest.
C22_AggregatorOnceAfterLoop ==
    [][/\ \A p \in Procs :
             /\ Enters(p, "read") => procs[p].pc = "wire"
             /\ Enters(p, "write") => procs[p].pc = "read"
             /\ Leaves(p, "write")
                  => /\ procs'[p].pc = "done" /\ procs'[p].result = "ok"
                     /\ agg'.kind = "yaml"
                     /\ Contains(agg'.deps, procs[p].name \o ":build")
                     /\ AppendedAtEnd(procs[p].content.deps, agg'.deps,
                                      procs[p].name \o ":build")
       /\ agg' # agg
            => \E p \in Procs : procs[p].type = "crate" /\ Leaves(p, "write")]_vars

\* C22 witness: a library command has ended after repairing a consumer in
\* its loop, and gather.deps holds its target once.
C22_Witness ==
    \E p, q \in Procs :
        /\ LibraryAddDone(p)
        /\ Count(AggDeps, procs[p].name \o ":build") = 1
        /\ procs[q].type = "react" /\ procs[q].pc = "done"
        /\ proj[ConcSlot(q)].moon.kind = "yaml"
        /\ proj[ConcSlot(q)].moon.fmt = "norm"
        /\ DeclaresLibraryDependency(proj[ConcSlot(q)].moon)

\* A consumer command p and a library command q have both ended with
\* success.
ConsumerAndLibraryDone(p, q) ==
    /\ procs[p].type = "react"
    /\ procs[p].pc = "done" /\ procs[p].result = "ok"
    /\ LibraryAddDone(q)

\* The consumer's has_crates check came after the library's directory
\* creation: the flag it computed is set.
CheckedAfterCreation(p) == procs[p].has_wasm

\* The consumer's manifest write came before the library's consumer scan:
\* the manifest is as the scan's write-back left it.
WrittenBeforeScan(p) ==
    /\ proj[ConcSlot(p)].moon.kind = "yaml"
    /\ proj[ConcSlot(p)].moon.fmt = "norm"

\* C29 as claimed: when an add-consumer and an add-library command run
\* concurrently and both end with success, the consumer's build manifest
\* declares the library dependency, in every interleaving.
C29_ConsumerAlwaysWired ==
    \A p, q \in Procs :
        ConsumerAndLibraryDone(p, q)
            => DeclaresLibraryDependency(proj[ConcSlot(p)].moon)

\* C29 amended: under the same conditions the consumer's build manifest
\* declares the library dependency in every interleaving in which the
\* consumer's has_crates check follows the library's directory creation or
\* the consumer's manifest write precedes the library's consumer scan; in
\* the others it does not.
C29_ConsumerWiredUnlessCheckFirstWriteLast ==
    \A p, q \in Procs :
        ConsumerAndLibraryDone(p, q)
            => (DeclaresLibraryDependency(proj[ConcSlot(p)].moon)
                    <=> (CheckedAfterCreation(p) \/ WrittenBeforeScan(p)))

\* C29 witness: both commands have ended with success; the consumer checked
\* before the library directory existed and wrote its manifest before the
\* scan, which gave it the dependency.
C29_Witness ==
    \E p, q \in Procs :
        /\ ConsumerAndLibraryDone(p, q)
        /\ ~CheckedAfterCreation(p)
        /\ WrittenBeforeScan(p)
        /\ DeclaresLibraryDependency(proj[ConcSlot(p)].moon)

====
